---- MODULE Spec2Model ----
(***************************************************************************)
(* Model of limon-core's interval-indexed schedule (src/src/schedule.rs).  *)
(*                                                                         *)
(* The registry is the pair of maps of `Schedule`: `items` (id -> item)    *)
(* and `intervals` (interval -> set of ids).  Each public method is one    *)
(* action; the maps are changed exactly by the statements of the method.   *)
(* `last`, `prev`, `pre`, `inserted`, `fresh` and `nops` are history       *)
(* variables: the call just made with its return value, a summary of the   *)
(* call before it, the registry before the last call, the reference "most  *)
(* recently inserted, not removed since" map, whether the registry was     *)
(* built by inserts of pairwise distinct ids only, and the number of calls *)
(* made.  SpecLong makes the same calls in longer runs over fewer inputs.   *)
(*                                                                         *)
(* Monitor::measure (src/src/monitor/measure.rs) with the two collectors   *)
(* (collectors/http.rs, collectors/ping.rs) is the second part: `monitor`  *)
(* is the monitor being measured, `env` what the network and the libraries *)
(* under the collector do in this call, `mpc` the position of the call,    *)
(* `now` the clock, `measurement` the value being built, `res` the         *)
(* collector's result, `invoked` which collector ran and whether it sent   *)
(* an echo request, and `times` the clock readings at the start of the     *)
(* call and at the end of the probe.  SpecMeasure runs one call of measure.*)
(*                                                                         *)
(* SpecConc runs the methods of a shared Schedule (&self: get, get_due,    *)
(* insert) in several tasks, one step per acquisition of a lock and one    *)
(* per block executed under it; remove (&mut self) runs while no other     *)
(* call does.  `task` holds each task's position and locals, `lock` the    *)
(* holders of the two RwLocks, `seen` what has been observed in the run    *)
(* (a reader seeing an insert in progress, two inserts overlapping, the    *)
(* order in which a call took the two locks), and `calls` the number of    *)
(* calls started.  SpecInserts is SpecConc with tasks that only insert.    *)
(*                                                                         *)
(* SpecArc follows the Arc<Item> values of `items`: `arcs` is the sequence *)
(* of the allocations made by Arc::new, each with its item and its strong  *)
(* count, `slot` the allocation that `items` holds for each id, and `held` *)
(* the clones that callers of get and get_due still hold, each with the    *)
(* item it showed when it was handed out.                                  *)
(*                                                                         *)
(* SpecResolver follows the static RESOLVER of collectors/ping.rs over     *)
(* several calls of Ping::measure: `resolver` is the resolver once it is   *)
(* built, with its options and its cache (host -> time the entry expires), *)
(* `rclock` the time, and `lookups` the numbers of lookups that the probe   *)
(* made and of queries sent to the name servers.                           *)
(***************************************************************************)
EXTENDS Integers, FiniteSets, Sequences, Bags, TLC

\* ---------------------------------------------------------------- bounds
MaxId == 2
MaxInterval == 3
MaxTime == 4
MaxOps == 3
MaxLong == 4
MaxBody == 2
MaxKeyword == 1
MaxElapsed == 2
MaxTasks == 2
MaxCalls == 3
MaxArcs == 3
MaxHeld == 2
MaxTtl == 2
MaxClock == 3
MaxLookups == 3

Ids == 1..MaxId
Intervals == 0..MaxInterval
Times == 0..MaxTime

VARIABLES items, intervals, last, prev, pre, inserted, fresh, nops

VARIABLES monitor, env, mpc, now, measurement, res, invoked, times

\* The registry with its history, and the measurement.
rvars == <<items, intervals, last, prev, pre, inserted, fresh, nops>>

mvars == <<monitor, env, mpc, now, measurement, res, invoked, times>>

VARIABLES task, lock, seen, calls

\* The tasks that share the registry.
cvars == <<task, lock, seen, calls>>

\* The history of the calls made one at a time.
hvars == <<last, prev, pre, inserted, fresh, nops>>

VARIABLES arcs, slot, held

\* The allocations behind `items`.
avars == <<arcs, slot, held>>

VARIABLES resolver, rclock, lookups

\* The resolver of the Ping collector.
dvars == <<resolver, rclock, lookups>>

vars == <<rvars, mvars, cvars, avars, dvars>>

\* ------------------------------------------------------------ data types
\* Option<T>, the unit return and a panic (the call does not return).
None == [tag |-> "None"]
Some(v) == [tag |-> "Some", val |-> v]
Unit == [tag |-> "Unit"]
Panic == [tag |-> "Panic"]
\* Vec<Arc<Item>>: the iteration order of a HashMap / HashSet is arbitrary,
\* so a returned vector is kept as the bag of its elements.
Vec(b) == [tag |-> "Vec", val |-> b]

\* The schedulable item of the tests: struct Task { id, interval, updated }.
Task(id, interval, updated) ==
  [id |-> id, interval |-> interval, updated |-> updated]

get_id(item) == item.id

get_interval(item) == item.interval

\* An empty HashMap.
EmptyMap == [k \in {} |-> {}]

\* Rust's `/` on i64: the quotient truncated toward zero (b > 0 here; a
\* zero divisor panics, see due_bucket).
div(a, b) == IF a >= 0 THEN a \div b ELSE -((-a) \div b)

\* ------------------------------------------------------- Schedule::new
new == [items |-> EmptyMap, intervals |-> EmptyMap]

\* ------------------------------------------------------- Schedule::get
\* self.items.read().await.get(&id).cloned()
items_get(its, id) == IF id \in DOMAIN its THEN Some(its[id]) ELSE None

\* --------------------------------------------------- Schedule::get_due
\* Variant: the smallest multiple strictly greater than `from`.
next_check_open(from, interval) == div(from + interval, interval) * interval

\* let next_check = ((from + interval - 1) / interval) * interval;
next_check(from, interval) == div(from + interval - 1, interval) * interval

\* The inner loop: for id in ids { if let Some(item) = guard.get(id) {
\* result.push(item.clone()) } }
RECURSIVE push_ids(_, _, _)
push_ids(result, ids, guard) ==
  IF ids = {} THEN result
  ELSE LET id == CHOOSE x \in ids : TRUE
           r  == IF id \in DOMAIN guard
                 THEN result (+) SetToBag({guard[id]})
                 ELSE result
       IN push_ids(r, ids \ {id}, guard)

\* Variant: a bucket whose next multiple is `to` itself is skipped.
due_bucket_strict(acc, its, interval, ids, from, to) ==
  IF acc.panicked \/ interval = 0 THEN [acc EXCEPT !.panicked = TRUE]
  ELSE IF next_check(from, interval) < to
       THEN [acc EXCEPT !.result = push_ids(@, ids, its)]
       ELSE acc

\* One iteration of the outer loop, for the bucket (interval, ids).  `acc` is
\* the vector built so far, or the mark that the call has panicked: an
\* interval of 0 makes the division panic.
due_bucket(acc, its, interval, ids, from, to) ==
  IF acc.panicked \/ interval = 0 THEN [acc EXCEPT !.panicked = TRUE]
  ELSE IF next_check(from, interval) <= to
       THEN [acc EXCEPT !.result = push_ids(@, ids, its)]
       ELSE acc

\* for (interval, ids) in intervals.iter() { ... }
RECURSIVE due_loop(_, _, _, _, _, _)
due_loop(acc, its, ivs, keys, from, to) ==
  IF keys = {} THEN acc
  ELSE LET k == CHOOSE x \in keys : TRUE
       IN due_loop(due_bucket(acc, its, k, ivs[k], from, to),
                   its, ivs, keys \ {k}, from, to)

due_items(its, ivs, from, to) ==
  LET acc == due_loop([panicked |-> FALSE, result |-> EmptyBag],
                      its, ivs, DOMAIN ivs, from, to)
  IN IF acc.panicked THEN Panic ELSE Vec(acc.result)

\* ---------------------------------------------------- Schedule::insert
\* Variant: the bucket is replaced by a set that holds the new id alone.
insert_intervals_alone(ivs, item) ==
  [k \in DOMAIN ivs \cup {get_interval(item)} |->
     IF k = get_interval(item) THEN {get_id(item)} ELSE ivs[k]]

\* Variant: HashSet::insert's "was already present" answer drops the bucket.
insert_intervals_dup(ivs, item) ==
  LET id == get_id(item)
      interval == get_interval(item)
  IN IF interval \in DOMAIN ivs
     THEN IF id \in ivs[interval]
          THEN [k \in DOMAIN ivs \ {interval} |-> ivs[k]]
          ELSE [ivs EXCEPT ![interval] = @ \cup {id}]
     ELSE [k \in DOMAIN ivs \cup {interval} |->
             IF k = interval THEN {id} ELSE ivs[k]]

\* First block: the id joins the bucket of the item's interval, which is
\* created when missing.  No other bucket is touched.
insert_intervals(ivs, item) ==
  LET id == get_id(item)
      interval == get_interval(item)
  IN IF interval \in DOMAIN ivs
     THEN [ivs EXCEPT ![interval] = @ \cup {id}]
     ELSE [k \in DOMAIN ivs \cup {interval} |->
             IF k = interval THEN {id} ELSE ivs[k]]

\* Variant: an entry already present is kept (entry().or_insert()).
insert_items_keep(its, item) ==
  LET id == get_id(item)
  IN [k \in DOMAIN its \cup {id} |->
        IF k \in DOMAIN its THEN its[k] ELSE item]

\* Second block: items.insert(id, Arc::new(item)) overwrites any old entry.
insert_items(its, item) ==
  LET id == get_id(item)
  IN [k \in DOMAIN its \cup {id} |-> IF k = id THEN item ELSE its[k]]

\* ---------------------------------------------------- Schedule::remove
\* Variant: the item stays in `items`.
remove_items_stay(its, id) == its

\* self.items.write().await.remove(&id)
remove_items(its, id) == [k \in DOMAIN its \ {id} |-> its[k]]

\* Variant: the emptied bucket is left in the map.
remove_intervals_keep(ivs, id, interval) ==
  IF interval \in DOMAIN ivs
  THEN [ivs EXCEPT ![interval] = @ \ {id}]
  ELSE ivs

\* The body of `if let Some(item) = ...`: the id leaves the bucket of the
\* removed item's interval, and the bucket is dropped when that emptied it.
remove_intervals(ivs, id, interval) ==
  IF interval \in DOMAIN ivs
  THEN IF id \in ivs[interval] /\ ivs[interval] \ {id} = {}
       THEN [k \in DOMAIN ivs \ {interval} |-> ivs[k]]
       ELSE [ivs EXCEPT ![interval] = @ \ {id}]
  ELSE ivs

\* ------------------------------------------------------------- history
Call(op, arg, ret) == [op |-> op, arg |-> arg, ret |-> ret]

\* What `prev` keeps of a call: writes in full, reads by name only.
Summary(call) ==
  IF call.op \in {"insert", "remove"}
  THEN [op |-> call.op, arg |-> call.arg]
  ELSE [op |-> call.op, arg |-> None]

Registry == [items |-> items, intervals |-> intervals]

\* The history of one more call.
Record ==
  /\ nops' = nops + 1
  /\ pre' = Registry
  /\ prev' = Summary(last)
  /\ UNCHANGED <<mvars, cvars, avars, dvars>>

Step ==
  /\ nops < MaxOps
  /\ Record

\* ------------------------------------------------------ tokio::sync::RwLock
\* The holders of a lock: the writing task (0 for none) and the reading
\* tasks.
Unlocked == [writer |-> 0, readers |-> {}]

can_read(l) == l.writer = 0

can_write(l) == l.writer = 0 /\ l.readers = {}

read(l, t) == [l EXCEPT !.readers = @ \cup {t}]

write(l, t) == [l EXCEPT !.writer = t]

\* The guard is dropped.
drop(l, t) ==
  [writer |-> IF l.writer = t THEN 0 ELSE l.writer, readers |-> l.readers \ {t}]

\* ---------------------------------------------------------------- tasks
Tasks == 1..MaxTasks

\* A task between two calls, with what its last call returned.
Idle(ret) ==
  [pc |-> "idle", arg |-> None, rest |-> {}, cur |-> 0, result |-> EmptyBag,
   ret |-> ret]

\* -------------------------------------------------------------- actions
Init ==
  /\ items = new.items
  /\ intervals = new.intervals
  /\ last = Call("new", None, Unit)
  /\ prev = [op |-> "none", arg |-> None]
  /\ pre = new
  /\ inserted = [id \in Ids |-> None]
  /\ fresh = TRUE
  /\ nops = 0
  /\ monitor = None
  /\ env = None
  /\ mpc = "idle"
  /\ now = 0
  /\ measurement = None
  /\ res = None
  /\ invoked = [probe |-> "none", echo |-> FALSE]
  /\ times = [started |-> 0, probed |-> 0]
  /\ task = [t \in Tasks |-> Idle(None)]
  /\ lock = [items |-> Unlocked, intervals |-> Unlocked]
  /\ seen = {}
  /\ calls = 0
  /\ arcs = <<>>
  /\ slot = EmptyMap
  /\ held = EmptyBag
  /\ resolver = None
  /\ rclock = 0
  /\ lookups = [made |-> 0, queries |-> 0]

\* A call of insert that runs alone.
insert_call(item) ==
  /\ intervals' = insert_intervals(intervals, item)
  /\ items' = insert_items(items, item)
  /\ inserted' = [inserted EXCEPT ![get_id(item)] = Some(item)]
  /\ fresh' = (fresh /\ get_id(item) \notin DOMAIN items)
  /\ last' = Call("insert", item, Unit)

insert(item) ==
  /\ Step
  /\ insert_call(item)

\* Variant: an id that is not registered is taken for an interval key, and
\* the bucket under that key is dropped.
remove_wrong_key(id) ==
  /\ Step
  /\ items' = remove_items(items, id)
  /\ intervals' = IF id \in DOMAIN items
                  THEN remove_intervals(intervals, id, get_interval(items[id]))
                  ELSE [k \in DOMAIN intervals \ {id} |-> intervals[k]]
  /\ inserted' = [inserted EXCEPT ![id] = None]
  /\ fresh' = FALSE
  /\ last' = Call("remove", id, Unit)

\* A call of remove.
remove_call(id) ==
  /\ items' = remove_items(items, id)
  /\ intervals' = IF id \in DOMAIN items
                  THEN remove_intervals(intervals, id, get_interval(items[id]))
                  ELSE intervals
  /\ inserted' = [inserted EXCEPT ![id] = None]
  /\ fresh' = FALSE
  /\ last' = Call("remove", id, Unit)

remove(id) ==
  /\ Step
  /\ remove_call(id)

get_call(id) ==
  /\ last' = Call("get", id, items_get(items, id))
  /\ UNCHANGED <<items, intervals, inserted, fresh>>

get(id) ==
  /\ Step
  /\ get_call(id)

get_due_call(from, to) ==
  /\ last' = Call("get_due", [from |-> from, to |-> to],
                  due_items(items, intervals, from, to))
  /\ UNCHANGED <<items, intervals, inserted, fresh>>

get_due(from, to) ==
  /\ Step
  /\ get_due_call(from, to)

Next ==
  \/ \E id \in Ids, interval \in Intervals, updated \in BOOLEAN :
       insert(Task(id, interval, updated))
  \/ \E id \in Ids : remove(id)
  \/ \E id \in Ids : get(id)
  \/ \E from \in Times : \E to \in from..MaxTime : get_due(from, to)

Spec == Init /\ [][Next]_vars

\* ------------------------------------------------------ longer histories
\* The same calls in runs of up to MaxLong calls: the inserted items differ
\* in id and interval only, and get_due asks for the windows [1, to].
long_insert(item) ==
  /\ nops < MaxLong
  /\ Record
  /\ insert_call(item)

long_remove(id) ==
  /\ nops < MaxLong
  /\ Record
  /\ remove_call(id)

long_get(id) ==
  /\ nops < MaxLong
  /\ Record
  /\ get_call(id)

long_get_due(from, to) ==
  /\ nops < MaxLong
  /\ Record
  /\ get_due_call(from, to)

NextLong ==
  \/ \E id \in Ids, interval \in Intervals :
       long_insert(Task(id, interval, FALSE))
  \/ \E id \in Ids : long_remove(id)
  \/ \E id \in Ids : long_get(id)
  \/ \E to \in 1..MaxTime : long_get_due(1, to)

SpecLong == Init /\ [][NextLong]_vars

\* ============================================================ measurement
\* Result<T, E>
Ok(v) == [tag |-> "Ok", val |-> v]
Err(e) == [tag |-> "Err", val |-> e]

\* ------------------------------------------------------ monitor/errors.rs
\* enum HttpError; curl::Error is opaque.
StatusMismatch(expected, actual) ==
  [tag |-> "StatusMismatch", expected |-> expected, actual |-> actual]
KeywordNotFound(keyword) == [tag |-> "KeywordNotFound", keyword |-> keyword]
Unknown == [tag |-> "Unknown"]

\* enum PingError; ResolveError is opaque.
Dns == [tag |-> "Dns"]
NoReply(addr) == [tag |-> "NoReply", addr |-> addr]
Unreachable == [tag |-> "Unreachable"]

\* enum CollectorError, built by `#[from]`.
CollectorError_Ping(e) == [tag |-> "Ping", val |-> e]
CollectorError_Http(e) == [tag |-> "Http", val |-> e]

\* ------------------------------------------- monitor/models/measurement.rs
\* enum Data; the timings are not kept.
Data_Ping == [tag |-> "Ping"]
Data_Http == [tag |-> "Http"]

Measurement(timestamp, monitor_id, data, error) ==
  [timestamp |-> timestamp, monitor_id |-> monitor_id,
   data |-> data, error |-> error]

\* ----------------------------------------------- monitor/models/monitor.rs
PingConfig(check_frequency) ==
  [tag |-> "Ping", check_frequency |-> check_frequency]

HttpConfig(check_frequency, method, expected_status_code, keyword) ==
  [tag |-> "Http", check_frequency |-> check_frequency, method |-> method,
   expected_status_code |-> expected_status_code, keyword |-> keyword]

Monitor(id, config) == [id |-> id, host |-> "host", config |-> config]

\* ------------------------------------------------------------ the inputs
\* Method strings as configured, in any case, one of them not supported.
Methods == {"GET", "Post", "HEAD", "DELETE"}

\* expected_status_code is an i32: two usual codes and one beyond u16.
ExpectedCodes == {200, 400, 65736}

\* The codes a server answers with.
StatusCodes == {200, 400}

\* Bytes of a response body (xFF is not valid UTF-8) and the characters of
\* a keyword.
Bytes == {"a", "b", "xFF"}
Chars == {"a", "b"}
Bodies == UNION {[1..n -> Bytes] : n \in 0..MaxBody}
Keywords == {None} \cup {Some(k) : k \in UNION {[1..n -> Chars] : n \in 0..MaxKeyword}}

\* check_frequency, which measure does not read.
Frequencies == {MaxInterval}

Monitors ==
  {Monitor(id, PingConfig(f)) : id \in Ids, f \in Frequencies}
  \cup {Monitor(id, HttpConfig(f, m, c, k)) :
          id \in Ids, f \in Frequencies, m \in Methods,
          c \in ExpectedCodes, k \in Keywords}

\* What curl and the server do in one call of Http::measure: whether a
\* call that configures the request fails (before or after the method is
\* matched), how the blocking task and perform() end, which getinfo call
\* fails, and the answer.
HttpEnv(setup, perform, info, status, body) ==
  [tag |-> "Http", setup |-> setup, perform |-> perform, info |-> info,
   status |-> status, body |-> body]

HttpOutcomes ==
  {HttpEnv(x, "ok", "none", 200, <<>>) : x \in {"early", "late"}}
  \cup {HttpEnv("ok", x, "none", 200, <<>>) : x \in {"join_error", "error"}}
  \cup {HttpEnv("ok", "ok", i, c, b) :
          i \in {"none", "code", "times"}, c \in StatusCodes, b \in Bodies}

\* What the resolver and the pinger do in one call of Ping::measure.
PingEnv(dns, addrs, pinger) ==
  [tag |-> "Ping", dns |-> dns, addrs |-> addrs, pinger |-> pinger]

PingOutcomes ==
  {PingEnv(x, <<>>, "receive") : x \in {"init_fails", "error", "ok"}}
  \cup {PingEnv("ok", a, x) :
          a \in {<<"ip1">>, <<"ip2", "ip1">>},
          x \in {"new_fails", "cancelled", "receive", "idle", "recv_error"}}

\* --------------------------------------------- monitor/collectors/http.rs
\* String::to_lowercase on the method strings above.
to_lowercase(method) ==
  CASE method = "GET" -> "get"
    [] method = "Post" -> "post"
    [] method = "HEAD" -> "head"
    [] method = "DELETE" -> "delete"

\* `x as u16` for an i32 or u32 x.
as_u16(x) == x % 65536

\* ResponseBody::get_body: String::from_utf8_lossy, which replaces an
\* invalid byte by U+FFFD.
get_body(bytes) ==
  [i \in 1..Len(bytes) |-> IF bytes[i] = "xFF" THEN "uFFFD" ELSE bytes[i]]

\* Variant: the keyword must start the body.
contains_prefix(body, keyword) ==
  Len(keyword) <= Len(body) /\ SubSeq(body, 1, Len(keyword)) = keyword

\* str::contains
contains(body, keyword) ==
  \E i \in 0..(Len(body) - Len(keyword)) :
     SubSeq(body, i + 1, i + Len(keyword)) = keyword

\* The bytes the handler has collected: none for HEAD (nobody(true)).
received_body(config, e) ==
  IF to_lowercase(config.method) = "head" THEN <<>> ELSE e.body

\* Lines 76-99: the checks on the response and the result.
check_response(config, e) ==
  LET response_status == as_u16(e.status)
      expected_status_code == as_u16(config.expected_status_code)
  IN IF e.info = "code" THEN Err(Unknown)
     ELSE IF response_status # expected_status_code
     THEN Err(StatusMismatch(expected_status_code, response_status))
     ELSE IF /\ config.keyword # None
             /\ ~contains(get_body(received_body(config, e)),
                          config.keyword.val)
     THEN Err(KeywordNotFound(config.keyword.val))
     ELSE IF e.info = "times" THEN Err(Unknown)
     ELSE Ok(Data_Http)

\* Http::measure: a result, or a panic.
Http_measure(host, config, e) ==
  IF e.setup = "early" THEN Err(Unknown)
  ELSE IF to_lowercase(config.method) \notin
            {"get", "post", "put", "patch", "head"}
  THEN Panic
  ELSE IF e.setup = "late" THEN Err(Unknown)
  ELSE IF e.perform = "join_error" THEN Panic
  ELSE IF e.perform = "error" THEN Err(Unknown)
  ELSE check_response(config, e)

\* --------------------------------------------- monitor/collectors/ping.rs
\* The blocking task: the result of the ping, or a panic, and whether the
\* pinger was run.
ping_task(ip_address, e) ==
  CASE e.pinger = "new_fails" -> [result |-> Panic, echo |-> FALSE]
    [] e.pinger = "cancelled" -> [result |-> Panic, echo |-> FALSE]
    [] e.pinger = "receive" -> [result |-> Ok(Data_Ping), echo |-> TRUE]
    [] e.pinger = "idle" ->
         [result |-> Err(NoReply(ip_address)), echo |-> TRUE]
    [] e.pinger = "recv_error" ->
         [result |-> Err(Unreachable), echo |-> TRUE]

\* Ping::measure
Ping_measure(host, config, e) ==
  IF e.dns = "init_fails" THEN [result |-> Panic, echo |-> FALSE]
  ELSE IF e.dns = "error" THEN [result |-> Err(Dns), echo |-> FALSE]
  ELSE IF e.addrs = <<>> THEN [result |-> Err(Dns), echo |-> FALSE]
  ELSE ping_task(Head(e.addrs), e)

\* -------------------------------------------------- monitor/measure.rs
\* error.into(): the From impl of CollectorError for the family's error.
into(family, e) ==
  IF family = "Ping" THEN CollectorError_Ping(e) ELSE CollectorError_Http(e)

\* result.map_err(|error| error.into())
map_err(r, family) == IF r.tag = "Err" THEN Err(into(family, r.val)) ELSE r

\* Variant: every error is tagged as an HTTP error.
dispatch_http_tag(m, e) ==
  IF m.config.tag = "Ping"
  THEN LET r == Ping_measure(m.host, m.config, e)
       IN [probe |-> "Ping", echo |-> r.echo,
           result |-> map_err(r.result, "Http")]
  ELSE [probe |-> "Http", echo |-> FALSE,
        result |-> map_err(Http_measure(m.host, m.config, e), "Http")]

\* match &self.config { ... }: the collector that ran, whether an echo was
\* sent, and the result.
dispatch(m, e) ==
  IF m.config.tag = "Ping"
  THEN LET r == Ping_measure(m.host, m.config, e)
       IN [probe |-> "Ping", echo |-> r.echo,
           result |-> map_err(r.result, "Ping")]
  ELSE [probe |-> "Http", echo |-> FALSE,
        result |-> map_err(Http_measure(m.host, m.config, e), "Http")]

\* Variant: the error of a failed probe is not stored.
set_outcome_no_error(measure, r) ==
  IF r.tag = "Ok" THEN [measure EXCEPT !.data = Some(r.val)] ELSE measure

\* if result.is_ok() { measure.data = result.ok() } else { measure.error =
\* result.err() }
set_outcome(measure, r) ==
  IF r.tag = "Ok"
  THEN [measure EXCEPT !.data = Some(r.val)]
  ELSE [measure EXCEPT !.error = Some(r.val)]

\* Lines 35-40: the Measurement is created, with the clock read now.
measure_begin(m, e) ==
  /\ mpc = "idle"
  /\ monitor' = m
  /\ env' = e
  /\ measurement' = Measurement(now, m.id, None, None)
  /\ times' = [started |-> now, probed |-> now]
  /\ mpc' = "probe"
  /\ UNCHANGED <<now, res, invoked, rvars, cvars, avars, dvars>>

\* Lines 42-54: the collector runs, and takes some time; it may panic.
measure_probe ==
  /\ mpc = "probe"
  /\ \E d \in 1..MaxElapsed : now' = now + d
  /\ LET r == dispatch(monitor, env)
     IN /\ res' = r.result
        /\ invoked' = [probe |-> r.probe, echo |-> r.echo]
        /\ mpc' = IF r.result = Panic THEN "panicked" ELSE "finish"
  /\ times' = [times EXCEPT !.probed = now']
  /\ UNCHANGED <<monitor, env, measurement, rvars, cvars, avars, dvars>>

\* Lines 56-62: the result is stored and the Measurement returned.
measure_finish ==
  /\ mpc = "finish"
  /\ measurement' = set_outcome(measurement, res)
  /\ mpc' = "returned"
  /\ UNCHANGED <<monitor, env, now, res, invoked, times, rvars, cvars, avars, dvars>>

\* A call of measure on some monitor, in some environment of its collector.
measure ==
  /\ mpc = "idle"
  /\ \E m \in Monitors :
       \E e \in (IF m.config.tag = "Ping" THEN PingOutcomes
                 ELSE HttpOutcomes) :
          measure_begin(m, e)

NextMeasure ==
  \/ measure
  \/ measure_probe
  \/ measure_finish

SpecMeasure == Init /\ [][NextMeasure]_vars

\* ===================================================== the shared Schedule
\* The items the tasks insert, and the windows they ask for.
ConcItems == {Task(id, interval, FALSE) : id \in Ids, interval \in Intervals}

\* The positions inside remove.
RemovePcs == {"remove_items", "remove_found", "remove_intervals"}

\* A call starts in an idle task.  remove borrows the Schedule mutably
\* (&mut self): no call starts while a remove runs.
Start(t) ==
  /\ task[t].pc = "idle"
  /\ \A u \in Tasks : task[u].pc \notin RemovePcs
  /\ calls < MaxCalls
  /\ calls' = calls + 1

\* Task t is inside insert(item), after the block that writes `intervals`
\* and before the end of the block that writes `items`.
Inserting(t, id, interval) ==
  /\ task[t].pc \in {"insert_between", "insert_items"}
  /\ get_id(task[t].arg) = id
  /\ get_interval(task[t].arg) = interval

\* Task t is inside insert.
InInsert(t) ==
  task[t].pc \in {"insert_intervals", "insert_between", "insert_items"}

\* What the inner loop of get_due sees of the bucket (interval, ids) when
\* it looks the ids up in `guard`, while the insert of an id into this
\* bucket is in progress: the id without an item, or with an item that has
\* another interval.
observe(interval, ids, guard) ==
  {"orphan" : id \in {x \in ids : /\ x \notin DOMAIN guard
                                  /\ \E u \in Tasks : Inserting(u, x, interval)}}
  \cup {"stale" : id \in {x \in ids \cap DOMAIN guard :
                           /\ get_interval(guard[x]) # interval
                           /\ \E u \in Tasks : Inserting(u, x, interval)}}

\* insert, line 140: self.intervals.write().await
insert_lock_intervals(t, item) ==
  /\ Start(t)
  /\ can_write(lock.intervals)
  /\ lock' = [lock EXCEPT !.intervals = write(@, t)]
  /\ task' = [task EXCEPT ![t] =
                [Idle(None) EXCEPT !.pc = "insert_intervals", !.arg = item]]
  /\ inserted' = [inserted EXCEPT ![get_id(item)] = Some(item)]
  /\ fresh' = (fresh /\ inserted[get_id(item)] = None)
  /\ seen' = seen \cup {"overlap" : u \in {x \in Tasks : InInsert(x)}}
  /\ UNCHANGED <<items, intervals, last, prev, pre, nops, mvars, avars, dvars>>

\* insert, lines 142-150: the id is put in the bucket and the guard dropped.
insert_write_intervals(t) ==
  /\ task[t].pc = "insert_intervals"
  /\ intervals' = insert_intervals(intervals, task[t].arg)
  /\ lock' = [lock EXCEPT !.intervals = drop(@, t)]
  /\ task' = [task EXCEPT ![t].pc = "insert_between"]
  /\ UNCHANGED <<items, seen, calls, hvars, mvars, avars, dvars>>

\* insert, line 153: self.items.write().await
insert_lock_items(t) ==
  /\ task[t].pc = "insert_between"
  /\ can_write(lock.items)
  /\ lock' = [lock EXCEPT !.items = write(@, t)]
  /\ task' = [task EXCEPT ![t].pc = "insert_items"]
  /\ UNCHANGED <<items, intervals, seen, calls, hvars, mvars, avars, dvars>>

\* insert, lines 155-156: the item is stored, the guard dropped, and the
\* call returns.
insert_write_items(t) ==
  /\ task[t].pc = "insert_items"
  /\ items' = insert_items(items, task[t].arg)
  /\ lock' = [lock EXCEPT !.items = drop(@, t)]
  /\ task' = [task EXCEPT ![t] = Idle(Unit)]
  /\ UNCHANGED <<intervals, seen, calls, hvars, mvars, avars, dvars>>

\* get, line 100: self.items.read().await
get_lock(t, id) ==
  /\ Start(t)
  /\ can_read(lock.items)
  /\ lock' = [lock EXCEPT !.items = read(@, t)]
  /\ task' = [task EXCEPT ![t] = [Idle(None) EXCEPT !.pc = "get", !.arg = id]]
  /\ UNCHANGED <<items, intervals, seen, hvars, mvars, avars, dvars>>

\* get, line 100: .get(&id).cloned(), and the guard is dropped.
get_read(t) ==
  /\ task[t].pc = "get"
  /\ lock' = [lock EXCEPT !.items = drop(@, t)]
  /\ task' = [task EXCEPT ![t] = Idle(items_get(items, task[t].arg))]
  /\ UNCHANGED <<items, intervals, seen, calls, hvars, mvars, avars, dvars>>

\* get_due, lines 111-112: self.intervals.read().await; the iteration is
\* over the buckets of the map.
due_lock_intervals(t, from, to) ==
  /\ Start(t)
  /\ can_read(lock.intervals)
  /\ lock' = [lock EXCEPT !.intervals = read(@, t)]
  /\ task' = [task EXCEPT ![t] =
                [Idle(None) EXCEPT !.pc = "due_loop",
                                   !.arg = [from |-> from, to |-> to],
                                   !.rest = DOMAIN intervals]]
  /\ UNCHANGED <<items, intervals, seen, hvars, mvars, avars, dvars>>

\* get_due, lines 114-118: the next bucket, in any order.  Interval 0
\* panics (the guard is dropped by the unwinding); a bucket that is due
\* goes on to read `items`.
due_next(t) ==
  /\ task[t].pc = "due_loop"
  /\ \E interval \in task[t].rest :
       IF interval = 0
       THEN /\ lock' = [lock EXCEPT !.intervals = drop(@, t)]
            /\ task' = [task EXCEPT ![t] = [Idle(Panic) EXCEPT !.pc = "panicked"]]
       ELSE /\ task' = [task EXCEPT
                          ![t].rest = @ \ {interval},
                          ![t].cur = interval,
                          ![t].pc =
                             IF next_check(task[t].arg.from, interval)
                                  <= task[t].arg.to
                             THEN "due_bucket" ELSE "due_loop"]
            /\ UNCHANGED lock
  /\ UNCHANGED <<items, intervals, seen, calls, hvars, mvars, avars, dvars>>

\* get_due, line 119: self.items.read().await, with `intervals` still held.
due_lock_items(t) ==
  /\ task[t].pc = "due_bucket"
  /\ can_read(lock.items)
  /\ lock' = [lock EXCEPT !.items = read(@, t)]
  /\ task' = [task EXCEPT ![t].pc = "due_items"]
  /\ seen' = seen \cup {"intervals_then_items"}
  /\ UNCHANGED <<items, intervals, calls, hvars, mvars, avars, dvars>>

\* get_due, lines 121-126: the ids of the bucket are looked up and the
\* items guard dropped.
due_read_items(t) ==
  /\ task[t].pc = "due_items"
  /\ task' = [task EXCEPT
                ![t].result = push_ids(@, intervals[task[t].cur], items),
                ![t].pc = "due_loop"]
  /\ seen' = seen \cup observe(task[t].cur, intervals[task[t].cur], items)
  /\ lock' = [lock EXCEPT !.items = drop(@, t)]
  /\ UNCHANGED <<items, intervals, calls, hvars, mvars, avars, dvars>>

\* get_due, line 129: the loop is over, the vector is returned and the
\* intervals guard dropped.
due_return(t) ==
  /\ task[t].pc = "due_loop"
  /\ task[t].rest = {}
  /\ lock' = [lock EXCEPT !.intervals = drop(@, t)]
  /\ task' = [task EXCEPT ![t] = Idle(Vec(task[t].result))]
  /\ UNCHANGED <<items, intervals, seen, calls, hvars, mvars, avars, dvars>>

\* remove, line 161: self.items.write().await, with no other call running.
remove_lock_items(t, id) ==
  /\ Start(t)
  /\ \A u \in Tasks : task[u].pc = "idle"
  /\ can_write(lock.items)
  /\ lock' = [lock EXCEPT !.items = write(@, t)]
  /\ task' = [task EXCEPT ![t] =
                [Idle(None) EXCEPT !.pc = "remove_items", !.arg = id]]
  /\ UNCHANGED <<items, intervals, seen, hvars, mvars, avars, dvars>>

\* remove, line 161: .remove(&id).  With no item the guard is dropped and
\* the call returns; with an item the guard lives to the end of the
\* `if let`.
remove_take(t) ==
  /\ task[t].pc = "remove_items"
  /\ items' = remove_items(items, task[t].arg)
  /\ inserted' = [inserted EXCEPT ![task[t].arg] = None]
  /\ fresh' = FALSE
  /\ IF task[t].arg \in DOMAIN items
     THEN /\ task' = [task EXCEPT ![t].pc = "remove_found",
                                  ![t].cur = get_interval(items[task[t].arg])]
          /\ UNCHANGED lock
     ELSE /\ task' = [task EXCEPT ![t] = Idle(Unit)]
          /\ lock' = [lock EXCEPT !.items = drop(@, t)]
  /\ UNCHANGED <<intervals, seen, calls, last, prev, pre, nops,
                 mvars, avars, dvars>>

\* remove, line 163: self.intervals.write().await, with `items` still held.
remove_lock_intervals(t) ==
  /\ task[t].pc = "remove_found"
  /\ can_write(lock.intervals)
  /\ lock' = [lock EXCEPT !.intervals = write(@, t)]
  /\ task' = [task EXCEPT ![t].pc = "remove_intervals"]
  /\ seen' = seen \cup {"items_then_intervals"}
  /\ UNCHANGED <<items, intervals, calls, hvars, mvars, avars, dvars>>

\* remove, lines 165-170: the id leaves its bucket, both guards are
\* dropped and the call returns.
remove_write_intervals(t) ==
  /\ task[t].pc = "remove_intervals"
  /\ intervals' = remove_intervals(intervals, task[t].arg, task[t].cur)
  /\ lock' = [items |-> drop(lock.items, t),
              intervals |-> drop(lock.intervals, t)]
  /\ task' = [task EXCEPT ![t] = Idle(Unit)]
  /\ UNCHANGED <<items, seen, calls, hvars, mvars, avars, dvars>>

NextConc ==
  \E t \in Tasks :
     \/ \E item \in ConcItems : insert_lock_intervals(t, item)
     \/ insert_write_intervals(t)
     \/ insert_lock_items(t)
     \/ insert_write_items(t)
     \/ \E id \in Ids : get_lock(t, id)
     \/ get_read(t)
     \/ \E from \in Times : \E to \in from..MaxTime :
          due_lock_intervals(t, from, to)
     \/ due_next(t)
     \/ due_lock_items(t)
     \/ due_read_items(t)
     \/ due_return(t)
     \/ \E id \in Ids : remove_lock_items(t, id)
     \/ remove_take(t)
     \/ remove_lock_intervals(t)
     \/ remove_write_intervals(t)

SpecConc == Init /\ [][NextConc]_vars

\* The tasks call insert only, with items of two intervals.
InsertItems == {Task(id, interval, FALSE) : id \in Ids, interval \in {1, 2}}

NextInserts ==
  \E t \in Tasks :
     \/ \E item \in InsertItems : insert_lock_intervals(t, item)
     \/ insert_write_intervals(t)
     \/ insert_lock_items(t)
     \/ insert_write_items(t)

SpecInserts == Init /\ [][NextInserts]_vars

\* ====================================================== the Arc<Item> values
\* Arc::new(item): a new allocation, after the ones made so far, with one
\* strong reference.
Arc_new(as, item) == Append(as, [item |-> item, strong |-> 1])

\* Arc::clone: one more strong reference to allocation a.
Arc_clone(as, a, n) == [as EXCEPT ![a].strong = @ + n]

\* Drop of an Arc: one strong reference less; at 0 the allocation is freed.
Arc_drop(as, a) == [as EXCEPT ![a].strong = @ - 1]

\* What a caller gets: a reference to allocation a, with the item it shows
\* at this moment.
Handle(as, a) == [addr |-> a, item |-> as[a].item]

\* The map `items` as the callers see it: id -> the clone they would get.
Guard(as, sl) == [id \in DOMAIN sl |-> Handle(as, sl[id])]

\* Variant: the item of a registered id is overwritten in its allocation.
store_in_place(as, sl, item) ==
  LET id == get_id(item)
  IN IF id \in DOMAIN sl
     THEN [arcs |-> [as EXCEPT ![sl[id]].item = item], slot |-> sl]
     ELSE [arcs |-> Arc_new(as, item),
           slot |-> [k \in DOMAIN sl \cup {id} |->
                       IF k = id THEN Len(as) + 1 ELSE sl[k]]]

\* items.insert(id, Arc::new(item)): the new allocation takes the place of
\* the one stored for the id, which is dropped.
store(as, sl, item) ==
  LET id == get_id(item)
      made == Arc_new(as, item)
  IN [arcs |-> IF id \in DOMAIN sl THEN Arc_drop(made, sl[id]) ELSE made,
      slot |-> [k \in DOMAIN sl \cup {id} |->
                  IF k = id THEN Len(as) + 1 ELSE sl[k]]]

\* The clones of a returned vector: each allocation gets as many strong
\* references as the vector holds clones of it.
clone_all(as, handles) ==
  [a \in 1..Len(as) |->
     [as[a] EXCEPT !.strong = @ + CopiesIn(Handle(as, a), handles)]]

\* insert(item), with at most MaxArcs allocations in a run.
arc_insert(item) ==
  /\ Len(arcs) < MaxArcs
  /\ LET r == store(arcs, slot, item)
     IN arcs' = r.arcs /\ slot' = r.slot
  /\ intervals' = insert_intervals(intervals, item)
  /\ items' = insert_items(items, item)
  /\ UNCHANGED <<held, hvars, mvars, cvars, dvars>>

\* remove(id) of a registered id: the Arc taken out of `items` is dropped
\* at the end of the `if let`.
arc_remove(id) ==
  /\ id \in DOMAIN slot
  /\ arcs' = Arc_drop(arcs, slot[id])
  /\ slot' = [k \in DOMAIN slot \ {id} |-> slot[k]]
  /\ intervals' = remove_intervals(intervals, id, get_interval(items[id]))
  /\ items' = remove_items(items, id)
  /\ UNCHANGED <<held, hvars, mvars, cvars, dvars>>

\* get(id) that returns Some: .cloned(), and the caller keeps the clone.
arc_get(id) ==
  /\ id \in DOMAIN slot
  /\ BagCardinality(held) < MaxHeld
  /\ arcs' = Arc_clone(arcs, slot[id], 1)
  /\ held' = held (+) SetToBag({Handle(arcs, slot[id])})
  /\ UNCHANGED <<slot, items, intervals, hvars, mvars, cvars, dvars>>

\* get_due(from, to) that returns a vector with items: item.clone() for
\* each, and the caller keeps them.
arc_get_due(from, to) ==
  LET r == due_items(Guard(arcs, slot), intervals, from, to)
  IN /\ r.tag = "Vec"
     /\ r.val # EmptyBag
     /\ BagCardinality(held (+) r.val) <= MaxHeld
     /\ arcs' = clone_all(arcs, r.val)
     /\ held' = held (+) r.val
     /\ UNCHANGED <<slot, items, intervals, hvars, mvars, cvars, dvars>>

\* A caller drops one of the clones it holds.
arc_release(h) ==
  /\ BagIn(h, held)
  /\ held' = held (-) SetToBag({h})
  /\ arcs' = Arc_drop(arcs, h.addr)
  /\ UNCHANGED <<slot, items, intervals, hvars, mvars, cvars, dvars>>

\* The intervals of the items inserted here; get_due asks for [1, 1] (the
\* first bucket is due) and [1, 2] (both are).
ArcIntervals == {1, 2}

NextArc ==
  \/ \E id \in Ids, interval \in ArcIntervals :
       arc_insert(Task(id, interval, FALSE))
  \/ \E id \in Ids : arc_remove(id)
  \/ \E id \in Ids : arc_get(id)
  \/ \E to \in ArcIntervals : arc_get_due(1, to)
  \/ \E h \in BagToSet(held) : arc_release(h)

SpecArc == Init /\ [][NextArc]_vars

\* ===================================================== the DNS resolver
Hosts == {"a.example", "b.example"}

\* ResolverOpts::default() of trust-dns-resolver, in the fields that the
\* static sets: a cache of 32 entries, no bounds on the TTLs.
ResolverOpts_default ==
  [cache_size |-> 32,
   positive_min_ttl |-> None, positive_max_ttl |-> None,
   negative_min_ttl |-> None, negative_max_ttl |-> None]

\* ping.rs lines 14-19: the options that the static builds.
opts ==
  [ResolverOpts_default EXCEPT
     !.cache_size = 0,
     !.positive_min_ttl = Some(0), !.positive_max_ttl = Some(0),
     !.negative_min_ttl = Some(0), !.negative_max_ttl = Some(0)]

\* TokioAsyncResolver::tokio_from_system_conf(): the resolver of the
\* system configuration, which takes no options from the caller.
tokio_from_system_conf == [opts |-> ResolverOpts_default, cache |-> EmptyMap]

\* ping.rs lines 13-22: the value of the static; `opts` is built and not
\* used.
RESOLVER == tokio_from_system_conf

\* The time a positive answer with this TTL stays in the cache.
cached_ttl(o, ttl) ==
  LET lo == IF o.positive_min_ttl = None THEN ttl
            ELSE IF ttl < o.positive_min_ttl.val
                 THEN o.positive_min_ttl.val ELSE ttl
  IN IF o.positive_max_ttl = None THEN lo
     ELSE IF lo > o.positive_max_ttl.val THEN o.positive_max_ttl.val ELSE lo

\* An entry for the host that has not expired.
cache_hit(r, host) == host \in DOMAIN r.cache /\ r.cache[host] > rclock

\* The cache after an answer with this TTL (a cache of size 0 keeps
\* nothing).
cache_put(r, host, ttl) ==
  IF r.opts.cache_size = 0 THEN r.cache
  ELSE [h \in DOMAIN r.cache \cup {host} |->
          IF h = host THEN rclock + cached_ttl(r.opts, ttl) ELSE r.cache[h]]

\* Ping::measure line 28: RESOLVER.lookup_ip(host); the first use builds
\* the static.  The answer comes from the cache, or from a query whose
\* answer has the TTL `ttl`.
lookup_ip(host, ttl) ==
  /\ lookups.made < MaxLookups
  /\ LET r == IF resolver = None THEN RESOLVER ELSE resolver.val
     IN IF cache_hit(r, host)
        THEN /\ resolver' = Some(r)
             /\ lookups' = [lookups EXCEPT !.made = @ + 1]
        ELSE /\ resolver' = Some([r EXCEPT !.cache = cache_put(r, host, ttl)])
             /\ lookups' = [made |-> lookups.made + 1,
                             queries |-> lookups.queries + 1]
  /\ UNCHANGED <<rclock, rvars, mvars, cvars, avars>>

\* Time passes between two calls.
tick ==
  /\ rclock < MaxClock
  /\ rclock' = rclock + 1
  /\ UNCHANGED <<resolver, lookups, rvars, mvars, cvars, avars>>

NextResolver ==
  \/ \E host \in Hosts, ttl \in 0..MaxTtl : lookup_ip(host, ttl)
  \/ tick

SpecResolver == Init /\ [][NextResolver]_vars

\* ------------------------------------------------------------ properties
\* The buckets that hold `id`.
BucketsOf(ivs, id) == {k \in DOMAIN ivs : id \in ivs[k]}

\* The arguments and the result of the last call, when it was a get_due
\* that returned.
DueReturned == last.op = "get_due" /\ last.ret.tag = "Vec"

Returned(item) == DueReturned /\ BagIn(item, last.ret.val)

\* k has a multiple in the closed window [lo, hi] (0 <= lo, 0 < k).
MultipleIn(k, lo, hi) == \E n \in 0..MaxTime : lo <= n * k /\ n * k <= hi

\* k has a multiple in the half-open window (lo, hi].
MultipleAfter(k, lo, hi) == \E n \in 0..MaxTime : lo < n * k /\ n * k <= hi

\* The registry holds one item, with a positive interval, and nothing else.
SingleItem ==
  /\ Cardinality(DOMAIN items) = 1
  /\ \A id \in DOMAIN items :
       /\ get_interval(items[id]) > 0
       /\ DOMAIN intervals = {get_interval(items[id])}
       /\ intervals[get_interval(items[id])] = {id}

\* C1 (invariant I1): the keys of `items` are exactly the ids found in the
\* buckets, and each id is in exactly one bucket, the one of the interval
\* of the item stored for it.
C1_Bijection ==
  /\ DOMAIN items = UNION {intervals[k] : k \in DOMAIN intervals}
  /\ \A id \in DOMAIN items :
       BucketsOf(intervals, id) = {get_interval(items[id])}

\* C2 (replace semantics): after insert of an item whose id was registered
\* under another interval a, the id has left bucket a, is in the bucket of
\* the new interval, bucket a is gone if that emptied it, and `items` maps
\* the id to the new item.
C2_Replace ==
  (/\ last.op = "insert"
   /\ get_id(last.arg) \in DOMAIN pre.items
   /\ get_interval(pre.items[get_id(last.arg)]) # get_interval(last.arg))
  => LET id == get_id(last.arg)
         a  == get_interval(pre.items[id])
         b  == get_interval(last.arg)
     IN /\ a \in DOMAIN intervals => id \notin intervals[a] /\ intervals[a] # {}
        /\ b \in DOMAIN intervals /\ id \in intervals[b]
        /\ items[id] = last.arg

\* C3 as stated (half-open window): a registry holding a single item with
\* interval k > 0 returns it from get_due(from, to) iff some multiple of k
\* lies in (from, to].
C3_DueHalfOpen ==
  (DueReturned /\ SingleItem)
  => \A id \in DOMAIN items :
       Returned(items[id])
       <=> MultipleAfter(get_interval(items[id]), last.arg.from, last.arg.to)

\* C3 as amended (closed window): a registry holding a single item with
\* interval k > 0 returns it from get_due(from, to), 0 <= from <= to, iff
\* some multiple of k lies in [from, to]; with from = 0 that is always.
C3_DueClosed ==
  (last.op = "get_due" /\ SingleItem)
  => \A id \in DOMAIN items :
       Returned(items[id])
       <=> MultipleIn(get_interval(items[id]), last.arg.from, last.arg.to)

\* A single item was returned for a window from < to whose only multiple of
\* the interval is `from` itself.
C3_Witness ==
  /\ DueReturned /\ SingleItem
  /\ last.arg.from < last.arg.to
  /\ \E id \in DOMAIN items :
       /\ Returned(items[id])
       /\ ~MultipleAfter(get_interval(items[id]), last.arg.from, last.arg.to)

\* C4 (due set of the documentation): for a registry built by inserts of
\* pairwise distinct ids with positive intervals and 0 < from <= to,
\* get_due(from, to) returns exactly the items whose interval divides some
\* v with from <= v <= to; the empty registry returns nothing.
C4_DueSet ==
  (/\ last.op = "get_due"
   /\ fresh
   /\ \A id \in DOMAIN items : get_interval(items[id]) > 0
   /\ last.arg.from > 0)
  => /\ last.ret.tag = "Vec"
     /\ BagToSet(last.ret.val) =
          {items[id] : id \in
             {i \in DOMAIN items :
                \E v \in last.arg.from..last.arg.to :
                   v % get_interval(items[i]) = 0}}

\* Two items in different buckets, one due and returned, the other not due
\* and not returned.
C4_Witness ==
  /\ DueReturned /\ fresh /\ last.arg.from > 0
  /\ \A id \in DOMAIN items : get_interval(items[id]) > 0
  /\ \E i, j \in DOMAIN items :
       /\ get_interval(items[i]) # get_interval(items[j])
       /\ Returned(items[i])
       /\ ~Returned(items[j])

\* C5 (degenerate window): every registered item with interval k > 0 is in
\* the result of get_due(t, t) iff t is a multiple of k.
C5_Degenerate ==
  (DueReturned /\ last.arg.from = last.arg.to)
  => \A id \in DOMAIN items :
       get_interval(items[id]) > 0
       => (Returned(items[id])
           <=> last.arg.to % get_interval(items[id]) = 0)

\* C6 (no duplicates): the result of get_due holds at most one element per
\* identifier.
C6_NoDuplicates ==
  DueReturned
  => \A id \in Ids :
       BagCardinality([item \in {x \in BagToSet(last.ret.val) : get_id(x) = id}
                         |-> CopiesIn(item, last.ret.val)]) <= 1

\* C7 (invariant I2): no empty bucket is ever stored.
C7_NoEmptyBucket == \A k \in DOMAIN intervals : intervals[k] # {}

\* remove has just taken the last id out of a bucket, and the bucket is gone.
C7_Witness ==
  /\ last.op = "remove"
  /\ last.arg \in DOMAIN pre.items
  /\ pre.intervals[get_interval(pre.items[last.arg])] = {last.arg}
  /\ get_interval(pre.items[last.arg]) \notin DOMAIN intervals

\* C8 (removal pruning): after remove(id) of a registered id, id is in no
\* bucket and every bucket that held only id is gone; and after insert of
\* an item whose id was not registered, remove(id) gives back the registry
\* that held before the insert.
C8_RemovalPruning ==
  /\ (last.op = "remove" /\ last.arg \in DOMAIN pre.items)
     => /\ BucketsOf(intervals, last.arg) = {}
        /\ \A k \in DOMAIN pre.intervals :
             pre.intervals[k] = {last.arg} => k \notin DOMAIN intervals
  /\ (last.op = "insert" /\ get_id(last.arg) \notin DOMAIN pre.items)
     => /\ remove_items(items, get_id(last.arg)) = pre.items
        /\ remove_intervals(intervals, get_id(last.arg),
                            get_interval(last.arg)) = pre.intervals

\* The same (id, interval) pair was inserted by the last two calls.
InsertedTwice ==
  /\ last.op = "insert" /\ prev.op = "insert"
  /\ get_id(prev.arg) = get_id(last.arg)
  /\ get_interval(prev.arg) = get_interval(last.arg)

\* C9 (idempotent insert): inserting the same (id, interval) pair twice in a
\* row leaves the key set of `items` and the whole of `intervals` as they
\* were after the first insert, the id being in its bucket.
C9_IdempotentInsert ==
  InsertedTwice
  => /\ DOMAIN items = DOMAIN pre.items
     /\ intervals = pre.intervals
     /\ get_id(last.arg) \in DOMAIN items
     /\ get_interval(last.arg) \in DOMAIN intervals
     /\ get_id(last.arg) \in intervals[get_interval(last.arg)]

\* The pair was inserted twice, the second time with another payload, while
\* another id shares the bucket.
C9_Witness ==
  /\ InsertedTwice
  /\ prev.arg # last.arg
  /\ intervals[get_interval(last.arg)] # {get_id(last.arg)}

\* C10 (point lookup): get(id) returns the item most recently inserted under
\* id and not removed since, None when there is none, and leaves the
\* registry as it was.
C10_PointLookup ==
  last.op = "get"
  => /\ last.ret = inserted[last.arg]
     /\ Registry = pre

\* get returned the item that replaced an earlier one, of another interval,
\* under the same id.
C10_Witness ==
  /\ last.op = "get" /\ prev.op = "insert"
  /\ get_id(prev.arg) = last.arg
  /\ last.ret = Some(prev.arg)
  /\ Cardinality(BucketsOf(intervals, last.arg)) > 1

\* C11 (remove of an absent id): remove(id) with an id that is not a key of
\* `items` leaves `items` and `intervals` as they were.
C11_RemoveAbsent ==
  (last.op = "remove" /\ last.arg \notin DOMAIN pre.items)
  => Registry = pre

\* remove was called with an id that is not registered, on a registry that
\* holds another item in the bucket whose key equals that id.
C11_Witness ==
  /\ last.op = "remove"
  /\ last.arg \notin DOMAIN pre.items
  /\ pre.items # EmptyMap
  /\ last.arg \in DOMAIN pre.intervals

\* C12 (totality): every call of get, insert, remove and get_due returns
\* normally, whatever items have been inserted, items of interval 0 included.
C12_Total == last.ret # Panic

\* --------------------------------------------- properties of Monitor::measure
\* The call has returned a Measurement.
Returned_measure == mpc = "returned"

\* The collector has returned a result (not panicked).
Probed == mpc \in {"finish", "returned"}

IsHttp == monitor # None /\ monitor.config.tag = "Http"
IsPing == monitor # None /\ monitor.config.tag = "Ping"

\* Http::measure got a response and could read what it reads from it.
TransportCompletes ==
  /\ IsHttp
  /\ Probed
  /\ env.setup = "ok"
  /\ env.perform = "ok"
  /\ env.info = "none"

\* keyword occurs in body at some position.
Substring(keyword, body) ==
  \E i \in 1..(Len(body) + 1) :
     \A j \in 1..Len(keyword) :
        /\ i + j - 1 <= Len(body)
        /\ body[i + j - 1] = keyword[j]

\* C13 (measurement exclusivity): the Measurement that measure returns has
\* data = Some and error = None when the probe succeeded, and data = None
\* and error = Some when the probe failed; never both, never neither.
C13_Exclusive ==
  Returned_measure =>
    IF res.tag = "Ok"
    THEN measurement.data = Some(res.val) /\ measurement.error = None
    ELSE measurement.data = None /\ measurement.error = Some(res.val)

C13_Witness ==
  /\ Returned_measure
  /\ res.tag = "Err"
  /\ measurement.error # None
  /\ measurement.data = None

\* C14 (failure absorption): for every Monitor, with any method string and
\* any outcome of the probe, measure returns a Measurement and does not
\* panic.
C14_NoPanic == mpc # "panicked"

\* C15 (timestamp ordering): the timestamp of the returned Measurement is
\* read after the probe has completed.
C15_TimestampAfterProbe ==
  Returned_measure => measurement.timestamp >= times.probed

\* C16 (dispatch and family tagging): the Ping probe runs iff the
\* configuration is Ping and the HTTP probe iff it is Http; Data and
\* CollectorError carry the family of the monitor, and monitor_id is the
\* monitor's id.
C16_Dispatch ==
  /\ mpc \in {"finish", "returned", "panicked"} =>
       invoked.probe = monitor.config.tag
  /\ Probed =>
       /\ res.tag = "Ok" => res.val.tag = monitor.config.tag
       /\ res.tag = "Err" => res.val.tag = monitor.config.tag
  /\ Returned_measure =>
       /\ measurement.monitor_id = monitor.id
       /\ measurement.data # None =>
            measurement.data.val.tag = monitor.config.tag
       /\ measurement.error # None =>
            measurement.error.val.tag = monitor.config.tag

C16_Witness ==
  /\ Returned_measure
  /\ IsPing
  /\ invoked.probe = "Ping"
  /\ measurement.error # None
  /\ measurement.error.val.tag = "Ping"
  /\ measurement.monitor_id = MaxId

\* C17 (HTTP status check): when the transport completes and the status
\* code of the response differs from the configured expected status code,
\* the probe fails with StatusMismatch carrying the configured and the
\* observed code, whatever the keyword.
C17_StatusMismatch ==
  (TransportCompletes /\ env.status # monitor.config.expected_status_code)
  => res = Err(CollectorError_Http(
             StatusMismatch(monitor.config.expected_status_code, env.status)))

\* C18 (HTTP keyword check): when the transport completes, the status code
\* is the expected one and a keyword is configured, the probe fails with
\* KeywordNotFound{keyword} iff the body does not contain the keyword; with
\* no keyword, or the keyword present, it returns Http data.
C18_Keyword ==
  (TransportCompletes /\ env.status = monitor.config.expected_status_code)
  => LET keyword == monitor.config.keyword
         body == get_body(received_body(monitor.config, env))
     IN res = IF keyword # None /\ ~Substring(keyword.val, body)
              THEN Err(CollectorError_Http(KeywordNotFound(keyword.val)))
              ELSE Ok(Data_Http)

C18_Witness ==
  /\ TransportCompletes
  /\ env.status = monitor.config.expected_status_code
  /\ monitor.config.keyword = Some(<<"a">>)
  /\ get_body(received_body(monitor.config, env)) = <<"uFFFD", "a">>
  /\ res = Ok(Data_Http)

\* C19 (ping outcome classification): success only when an echo reply was
\* received; a lookup that fails or gives no address is Dns and no echo is
\* sent; an idle target is NoReply{addr}; any other failure of the ping
\* mechanism is Unreachable.
C19_PingClassification ==
  (IsPing /\ mpc \in {"finish", "returned", "panicked"} /\ env.dns # "init_fails")
  => /\ res.tag = "Ok" => env.pinger = "receive" /\ invoked.echo
     /\ (env.dns = "error" \/ env.addrs = <<>>) =>
          res = Err(CollectorError_Ping(Dns)) /\ ~invoked.echo
     /\ (env.dns = "ok" /\ env.addrs # <<>> /\ env.pinger = "idle") =>
          res = Err(CollectorError_Ping(NoReply(Head(env.addrs))))
     /\ (env.dns = "ok" /\ env.addrs # <<>>
           /\ env.pinger \in {"new_fails", "recv_error"}) =>
          res = Err(CollectorError_Ping(Unreachable))

\* ------------------------------------------- properties of the shared Schedule
\* C20 (writer exclusion / atomic insert): no get_due that runs while an
\* insert is in progress observes an id in a bucket of `intervals` for which
\* `items` has no entry, or still has the previous item with another
\* interval.
C20_AtomicInsert == "orphan" \notin seen /\ "stale" \notin seen

\* The call of task t has neither returned nor panicked.
Unfinished(t) == task[t].pc \notin {"idle", "panicked"}

\* Task t waits for a lock that it cannot take now.
Blocked(t) ==
  \/ task[t].pc = "insert_between" /\ ~can_write(lock.items)
  \/ task[t].pc = "due_bucket" /\ ~can_read(lock.items)
  \/ task[t].pc = "remove_found" /\ ~can_write(lock.intervals)

\* C26 (deadlock freedom): no state has every unfinished task blocked on a
\* lock, and no call ends without returning.
C26_DeadlockFree ==
  /\ (\E t \in Tasks : Unfinished(t)) =>
       \E t \in Tasks : Unfinished(t) /\ ~Blocked(t)
  /\ \A t \in Tasks : task[t].pc # "panicked"

\* C27 (concurrent inserts of distinct ids): when only distinct, not yet
\* registered ids have been inserted and no insert is in progress, `items`
\* and `intervals` satisfy I1 and I2 and every inserted item is stored.
C27_ConcurrentInserts ==
  (fresh /\ \A t \in Tasks : ~InInsert(t))
  => /\ C1_Bijection
     /\ C7_NoEmptyBucket
     /\ \A id \in Ids :
          inserted[id] # None =>
            id \in DOMAIN items /\ items[id] = inserted[id].val

\* Two inserts of distinct ids with the same interval have overlapped and
\* returned.
C27_Witness ==
  /\ fresh
  /\ "overlap" \in seen
  /\ \A t \in Tasks : task[t].pc = "idle"
  /\ Cardinality(DOMAIN items) = 2
  /\ Cardinality(DOMAIN intervals) = 1

\* C28 (consistent lock order): the calls that take one of the two locks
\* while they hold the other all take them in the same order.
C28_LockOrder ==
  ~("intervals_then_items" \in seen /\ "items_then_intervals" \in seen)

\* ------------------------------------------------ properties over histories
\* C24 (soundness of the due set): in every state reached by inserts and
\* removes, each item that get_due(from, to) returns has an own interval
\* with a multiple in the window (taken closed, the larger of the two
\* readings of the window).
C24_Sound ==
  DueReturned =>
    \A item \in BagToSet(last.ret.val) :
       MultipleIn(get_interval(item), last.arg.from, last.arg.to)

\* The registry r without any trace of id: no item, and the id in no
\* bucket, the buckets this empties pruned.
Without(r, id) ==
  LET keep == {k \in DOMAIN r.intervals : r.intervals[k] \ {id} # {}}
  IN [items |-> [x \in DOMAIN r.items \ {id} |-> r.items[x]],
      intervals |-> [k \in keep |-> r.intervals[k] \ {id}]]

\* The registry r after insert(item).
AfterInsert(r, item) ==
  [items |-> insert_items(r.items, item),
   intervals |-> insert_intervals(r.intervals, item)]

\* C23 (changing an interval by remove then reinsert): after remove(id) of
\* an id registered with interval a, the insert of an item with that id and
\* any interval b gives a registry where the id is in bucket b only, bucket
\* a is gone if the id was its last member, no bucket is empty, and which is
\* the registry that the insert gives when the id was never there.
C23_RemoveReinsert ==
  (last.op = "remove" /\ last.arg \in DOMAIN pre.items)
  => \A b \in Intervals :
        LET id == last.arg
            a == get_interval(pre.items[id])
            item == Task(id, b, FALSE)
            r == AfterInsert(Registry, item)
        IN /\ BucketsOf(r.intervals, id) = {b}
           /\ r.items[id] = item
           /\ (a # b /\ pre.intervals[a] = {id}) => a \notin DOMAIN r.intervals
           /\ \A k \in DOMAIN r.intervals : r.intervals[k] # {}
           /\ r = AfterInsert(Without(pre, id), item)

\* C25 (a removed item is never reported): from the return of remove(id)
\* until id is inserted again, whatever was inserted before, get(id) is
\* None and no result of get_due holds an item with that id.
C25_RemovedNotReported ==
  /\ (last.op = "get" /\ inserted[last.arg] = None) => last.ret = None
  /\ DueReturned =>
       \A item \in BagToSet(last.ret.val) : inserted[get_id(item)] # None

\* get_due ran right after a remove, over a due bucket that still holds
\* the removed id.
C25_Witness ==
  /\ DueReturned
  /\ prev.op = "remove"
  /\ inserted[prev.arg] = None
  /\ \E k \in BucketsOf(intervals, prev.arg) :
        k > 0 /\ MultipleIn(k, last.arg.from, last.arg.to)

\* --------------------------------------------- properties of the Arc values
\* C21 (snapshot results): an item handed out by get or get_due stays
\* readable (its allocation is not freed) and shows the item it showed
\* when handed out, whatever inserts and removes of its id follow.
C21_Snapshot ==
  \A h \in BagToSet(held) :
     /\ arcs[h.addr].strong > 0
     /\ arcs[h.addr].item = h.item

\* A held clone whose id now has another allocation (replaced since), and
\* a held clone whose id is not registered any more (removed since).
C21_Witness ==
  /\ \E h \in BagToSet(held) :
        /\ get_id(h.item) \in DOMAIN slot
        /\ slot[get_id(h.item)] # h.addr
        /\ arcs[slot[get_id(h.item)]].item # h.item
  /\ \E h \in BagToSet(held) : get_id(h.item) \notin DOMAIN slot

\* ------------------------------------------------ properties of the resolver
\* C22 (no DNS caching): the resolver that Ping::measure uses has cache size
\* 0 and all TTL bounds 0, and every lookup of the probe is a fresh query.
C22_NoCaching ==
  /\ resolver # None =>
       /\ resolver.val.opts.cache_size = 0
       /\ resolver.val.opts.positive_min_ttl = Some(0)
       /\ resolver.val.opts.positive_max_ttl = Some(0)
       /\ resolver.val.opts.negative_min_ttl = Some(0)
       /\ resolver.val.opts.negative_max_ttl = Some(0)
  /\ lookups.queries = lookups.made

====
